---- MODULE Spec2Model ----
(***************************************************************************)
(* A model of the path finder: the grid (MatrixWorld), the starting point  *)
(* selector (PathFinderUtils) and the depth-first search (DFSAlgorithm).   *)
(* Coordinates are 0-based as in the source; worldMatrix is the bit vector *)
(* in row-major order, element index+1 of the sequence being bit index.    *)
(***************************************************************************)
EXTENDS Integers, Sequences, FiniteSets, TLC

\* Grids of at most MaxCells cells are explored; where the grid is mutated
\* between the calls of one selector, grids of at most MaxMutatedCells cells.
MaxCells == 6

MaxMutatedCells == 4

\* Where the operations of the grid are explored on their own: grids of at most
\* MaxGridCells cells and lists of at most MaxCoordinates coordinates.
MaxGridCells == 4

MaxCoordinates == 2

\* Where a path is explored on its own: paths of at most MaxPathCoordinates
\* coordinates.
MaxPathCoordinates == 3

\* uint8_t numberOfCandidates / uint16_t counter accessors.
Uint8Range == 256
Uint16Range == 65536

VARIABLES
    rows, cols, worldMatrix, noOfUnblockedCells, noOfBlockedCells,  \* MatrixWorld
    ret,                 \* bool returned by the last operation, when a MatrixWorld mutator
    priorityQueue, isExhausted,                                      \* PathFinderUtils
    candidates,          \* vector returned by the last operation, when a selector call
    error,               \* exception thrown by the last operation, or "none"
    returned,            \* every candidate this selector has returned, in order
    snapshot,            \* the grid as it was when this selector scanned it
    scans,               \* how many times this selector scanned the grid
    pc, pathLength, maxStartingPoints, startingPoints,               \* findViablePath
    currentPath, visited, stack, result,
    last                 \* the last call on the grid: its name, arguments, and the grid before it

gridVars == <<rows, cols, worldMatrix, noOfUnblockedCells, noOfBlockedCells>>
selVars == <<priorityQueue, isExhausted, returned, snapshot, scans>>
outVars == <<ret, candidates, error>>
dfsVars == <<pc, pathLength, maxStartingPoints, startingPoints, currentPath, visited, stack, result>>
vars == <<gridVars, selVars, outVars, dfsVars, last>>

Min(a, b) == IF a < b THEN a ELSE b

(***************************************************************************)
(* MatrixWorld                                                             *)
(***************************************************************************)

\* The valid dimensions of grids of at most n cells.
DimsUpTo(n) == {d \in (1..n) \X (1..n) : d[1] * d[2] <= n}

Dims == DimsUpTo(MaxCells)

getTotalCells == Len(worldMatrix)

\* No cell is blocked, by the blocked counter.
matrixIsEmpty == noOfBlockedCells = 0

\* Mutant: the accessor returns the number of rows.
getRowSizeAsRows == rows

\* The accessors name the size of one row / one column.
getRowSize == cols

getColSize == rows

\* The counters are uint32_t, the accessors return uint16_t.
getNoOfUnblockedCells == noOfUnblockedCells % Uint16Range

getNoOfBlockedCells == noOfBlockedCells % Uint16Range

\* Mutant: the flat index is compared with the size, not each coordinate
\* with its dimension.
getIndexErrorFlat(row, col) ==
    IF Len(worldMatrix) = 0 THEN "length_error"
    ELSE IF (row * cols) + col >= rows * cols THEN "invalid_argument"
    ELSE "none"

\* Mutant: only the divisor is validated.
getBlockedToUnblockedRatioErrorDivisor ==
    IF noOfUnblockedCells = 0 THEN "invalid_argument" ELSE "none"

\* The exception getBlockedToUnblockedRatio throws, "none" when it returns.
getBlockedToUnblockedRatioError ==
    IF noOfBlockedCells = 0 \/ noOfUnblockedCells = 0 THEN "invalid_argument" ELSE "none"

\* The quotient it returns, as dividend and divisor.
getBlockedToUnblockedRatio == <<noOfBlockedCells, noOfUnblockedCells>>

\* The exception getIndex(row, col) throws, "none" when it returns.
getIndexError(row, col) ==
    IF Len(worldMatrix) = 0 THEN "length_error"
    ELSE IF row >= rows \/ col >= cols THEN "invalid_argument"
    ELSE "none"

\* Mutant: the cells are addressed column by column.
getIndexColumnMajor(row, col) == (col * rows) + row

getIndex(row, col) == (row * cols) + col

\* isUnblocked on coordinates getIndex accepts.
isUnblocked(row, col) == ~worldMatrix[getIndex(row, col) + 1]

\* Mutant: the search starts with the right-hand neighbour.
directionsRightFirst == << <<0, 1>>, <<1, 0>>, <<0, -1>>, <<-1, 0>> >>

\* up, right, down, left
directions == << <<-1, 0>>, <<0, 1>>, <<1, 0>>, <<0, -1>> >>

\* Mutant: a blocked centre has no neighbours.
countUnblockedNeighborsOfUnblocked(row, col) ==
    IF row >= rows \/ col >= cols THEN 0
    ELSE IF ~isUnblocked(row, col) THEN 0
    ELSE Cardinality({i \in 1..4 :
            LET newRow == row + directions[i][1]
                newCol == col + directions[i][2]
            IN  /\ newRow >= 0 /\ newRow < rows
                /\ newCol >= 0 /\ newCol < cols
                /\ isUnblocked(newRow, newCol)})

\* The exception countUnblockedNeighbors(row, col) throws, "none" when it
\* returns: what isUnblocked throws for a neighbour that passed the test of
\* the bounds.
countUnblockedNeighborsError(row, col) ==
    IF row >= rows \/ col >= cols THEN "none"
    ELSE LET thrown == {getIndexError(row + directions[i][1], col + directions[i][2]) :
                            i \in {j \in 1..4 :
                                /\ row + directions[j][1] >= 0 /\ row + directions[j][1] < rows
                                /\ col + directions[j][2] >= 0 /\ col + directions[j][2] < cols}}
                        \ {"none"}
         IN  IF thrown = {} THEN "none" ELSE CHOOSE e \in thrown : TRUE

countUnblockedNeighbors(row, col) ==
    IF row >= rows \/ col >= cols THEN 0
    ELSE Cardinality({i \in 1..4 :
            LET newRow == row + directions[i][1]
                newCol == col + directions[i][2]
            IN  /\ newRow >= 0 /\ newRow < rows
                /\ newCol >= 0 /\ newCol < cols
                /\ isUnblocked(newRow, newCol)})

\* matrixInitialize on valid dimensions: vector::resize keeps the bits that
\* are already there and appends unblocked ones; the counters are reset.
ResizedMatrix(r, c) ==
    [i \in 1..(r * c) |-> IF i <= Len(worldMatrix) THEN worldMatrix[i] ELSE FALSE]

\* Mutant: the dimensions are stored before they are validated.
matrixResizeAssignFirst(r, c) ==
    /\ pc = "idle"
    /\ rows' = r
    /\ cols' = c
    /\ IF r = 0 \/ c = 0
       THEN /\ ret' = FALSE
            /\ UNCHANGED <<worldMatrix, noOfUnblockedCells, noOfBlockedCells>>
       ELSE /\ worldMatrix' = ResizedMatrix(r, c)
            /\ noOfUnblockedCells' = r * c
            /\ noOfBlockedCells' = 0
            /\ ret' = TRUE
    /\ candidates' = <<>>
    /\ error' = "none"
    /\ UNCHANGED <<selVars, dfsVars>>

\* Mutant: the counters are not reset.
matrixResizeKeepCounters(r, c) ==
    /\ pc = "idle"
    /\ IF r = 0 \/ c = 0
       THEN /\ ret' = FALSE
            /\ UNCHANGED gridVars
       ELSE /\ rows' = r
            /\ cols' = c
            /\ worldMatrix' = ResizedMatrix(r, c)
            /\ UNCHANGED <<noOfUnblockedCells, noOfBlockedCells>>
            /\ ret' = TRUE
    /\ candidates' = <<>>
    /\ error' = "none"
    /\ UNCHANGED <<selVars, dfsVars>>

matrixResize(r, c) ==
    /\ pc = "idle"
    /\ IF r = 0 \/ c = 0
       THEN /\ ret' = FALSE
            /\ UNCHANGED gridVars
       ELSE /\ rows' = r
            /\ cols' = c
            /\ worldMatrix' = ResizedMatrix(r, c)
            /\ noOfUnblockedCells' = r * c
            /\ noOfBlockedCells' = 0
            /\ ret' = TRUE
    /\ candidates' = <<>>
    /\ error' = "none"
    /\ UNCHANGED <<selVars, dfsVars>>

setCell(row, col, state) ==
    /\ pc = "idle"
    /\ IF getIndexError(row, col) # "none"
       THEN /\ ret' = FALSE
            /\ UNCHANGED gridVars
       ELSE LET indexToChange == getIndex(row, col) + 1 IN
            IF worldMatrix[indexToChange] # state
            THEN /\ worldMatrix' = [worldMatrix EXCEPT ![indexToChange] = state]
                 /\ IF state
                    THEN IF noOfUnblockedCells > 0
                         THEN /\ noOfUnblockedCells' = noOfUnblockedCells - 1
                              /\ noOfBlockedCells' = noOfBlockedCells + 1
                         ELSE UNCHANGED <<noOfUnblockedCells, noOfBlockedCells>>
                    ELSE IF noOfBlockedCells > 0
                         THEN /\ noOfBlockedCells' = noOfBlockedCells - 1
                              /\ noOfUnblockedCells' = noOfUnblockedCells + 1
                         ELSE UNCHANGED <<noOfUnblockedCells, noOfBlockedCells>>
                 /\ ret' = TRUE
                 /\ UNCHANGED <<rows, cols>>
            ELSE /\ ret' = FALSE
                 /\ UNCHANGED gridVars
    /\ candidates' = <<>>
    /\ error' = "none"
    /\ UNCHANGED <<selVars, dfsVars>>

clearMatrix ==
    /\ pc = "idle"
    /\ IF Len(worldMatrix) = 0
       THEN /\ ret' = FALSE
            /\ UNCHANGED gridVars
       ELSE /\ worldMatrix' = [i \in 1..Len(worldMatrix) |-> FALSE]
            /\ noOfUnblockedCells' = Len(worldMatrix)
            /\ noOfBlockedCells' = 0
            /\ ret' = TRUE
            /\ UNCHANGED <<rows, cols>>
    /\ candidates' = <<>>
    /\ error' = "none"
    /\ UNCHANGED <<selVars, dfsVars>>

\* Mutant: a coordinate that fails undoes the cells blocked before it.
RECURSIVE BlankingRunRollback(_, _, _, _)
BlankingRunRollback(m, un, bl, coordinates) ==
    IF coordinates = <<>>
    THEN [worldMatrix |-> m, noOfUnblockedCells |-> un, noOfBlockedCells |-> bl,
          ret |-> TRUE, error |-> "none"]
    ELSE LET row == Head(coordinates)[1]
             col == Head(coordinates)[2]
         IN  IF getIndexError(row, col) # "none"
             THEN [worldMatrix |-> worldMatrix, noOfUnblockedCells |-> noOfUnblockedCells,
                   noOfBlockedCells |-> noOfBlockedCells,
                   ret |-> FALSE, error |-> getIndexError(row, col)]
             ELSE IF ~m[getIndex(row, col) + 1]
                  THEN BlankingRunRollback([m EXCEPT ![getIndex(row, col) + 1] = TRUE],
                                           IF un > 0 THEN un - 1 ELSE un,
                                           IF un > 0 THEN bl + 1 ELSE bl,
                                           Tail(coordinates))
                  ELSE BlankingRunRollback(m, un, bl, Tail(coordinates))

\* Mutant: setCell is called without asking isUnblocked first, and its false
\* on a cell that is already blocked ends the run.
RECURSIVE BlankingRunNoSkip(_, _, _, _)
BlankingRunNoSkip(m, un, bl, coordinates) ==
    IF coordinates = <<>>
    THEN [worldMatrix |-> m, noOfUnblockedCells |-> un, noOfBlockedCells |-> bl,
          ret |-> TRUE, error |-> "none"]
    ELSE LET row == Head(coordinates)[1]
             col == Head(coordinates)[2]
         IN  IF getIndexError(row, col) # "none" \/ m[getIndex(row, col) + 1]
             THEN [worldMatrix |-> m, noOfUnblockedCells |-> un, noOfBlockedCells |-> bl,
                   ret |-> FALSE, error |-> "none"]
             ELSE BlankingRunNoSkip([m EXCEPT ![getIndex(row, col) + 1] = TRUE],
                                    IF un > 0 THEN un - 1 ELSE un,
                                    IF un > 0 THEN bl + 1 ELSE bl,
                                    Tail(coordinates))

\* The lambda of matrixBlanking applied by std::all_of to the coordinates
\* in order, on cells m and counters un, bl: isUnblocked throws what getIndex
\* throws; an unblocked cell is blocked by setCell(row, col, true), which then
\* returns true; a blocked cell is skipped.
RECURSIVE BlankingRun(_, _, _, _)
BlankingRun(m, un, bl, coordinates) ==
    IF coordinates = <<>>
    THEN [worldMatrix |-> m, noOfUnblockedCells |-> un, noOfBlockedCells |-> bl,
          ret |-> TRUE, error |-> "none"]
    ELSE LET row == Head(coordinates)[1]
             col == Head(coordinates)[2]
         IN  IF getIndexError(row, col) # "none"
             THEN [worldMatrix |-> m, noOfUnblockedCells |-> un, noOfBlockedCells |-> bl,
                   ret |-> FALSE, error |-> getIndexError(row, col)]
             ELSE IF ~m[getIndex(row, col) + 1]
                  THEN BlankingRun([m EXCEPT ![getIndex(row, col) + 1] = TRUE],
                                   IF un > 0 THEN un - 1 ELSE un,
                                   IF un > 0 THEN bl + 1 ELSE bl,
                                   Tail(coordinates))
                  ELSE BlankingRun(m, un, bl, Tail(coordinates))

matrixBlanking(coordinates) ==
    /\ pc = "idle"
    /\ LET run == BlankingRun(worldMatrix, noOfUnblockedCells, noOfBlockedCells, coordinates) IN
        /\ worldMatrix' = run.worldMatrix
        /\ noOfUnblockedCells' = run.noOfUnblockedCells
        /\ noOfBlockedCells' = run.noOfBlockedCells
        /\ error' = run.error
        /\ ret' = IF run.error = "none" THEN run.ret ELSE ret
    /\ candidates' = <<>>
    /\ UNCHANGED <<rows, cols, selVars, dfsVars>>

\* Mutant: only the number of rows is validated.
matrixInitializeErrorRowsOnly(r, c) ==
    IF r = 0 THEN "invalid_argument" ELSE "none"

\* The exception matrixInitialize(r, c) throws, "none" when it returns.
matrixInitializeError(r, c) ==
    IF r = 0 \/ c = 0 THEN "invalid_argument" ELSE "none"

\* w = MatrixWorld(r, c): when the constructor throws, w is not replaced.
MatrixWorld(r, c) ==
    /\ pc = "idle"
    /\ IF matrixInitializeError(r, c) # "none"
       THEN UNCHANGED gridVars
       ELSE /\ rows' = r
            /\ cols' = c
            /\ worldMatrix' = [i \in 1..(r * c) |-> FALSE]
            /\ noOfUnblockedCells' = r * c
            /\ noOfBlockedCells' = 0
    /\ error' = matrixInitializeError(r, c)
    /\ ret' = TRUE
    /\ candidates' = <<>>
    /\ UNCHANGED <<selVars, dfsVars>>

(***************************************************************************)
(* PathFinderUtils                                                         *)
(***************************************************************************)

\* The grid a selector has seen: none before its scan.
NoGrid == [rows |-> 0, cols |-> 0, worldMatrix |-> <<>>]

TheGrid == [rows |-> rows, cols |-> cols, worldMatrix |-> worldMatrix]

\* Mutant: the comparison of a min-heap (std::greater).
PairGreater(a, b) ==
    \/ a[1] > b[1]
    \/ /\ a[1] = b[1]
       /\ \/ a[2][1] > b[2][1]
          \/ /\ a[2][1] = b[2][1]
             /\ a[2][2] > b[2][2]

\* Mutant: equal scores are ordered by column before row.
PairLessColumnFirst(a, b) ==
    \/ a[1] < b[1]
    \/ /\ a[1] = b[1]
       /\ \/ a[2][2] < b[2][2]
          \/ /\ a[2][2] = b[2][2]
             /\ a[2][1] < b[2][1]

\* std::pair's operator< on (score, (row, col)): lexicographic.
PairLess(a, b) ==
    \/ a[1] < b[1]
    \/ /\ a[1] = b[1]
       /\ \/ a[2][1] < b[2][1]
          \/ /\ a[2][1] = b[2][1]
             /\ a[2][2] < b[2][2]

\* priority_queue::top(): the greatest element of a max-heap.
PqTop(q) == CHOOSE e \in q : \A f \in q : f = e \/ PairLess(f, e)

\* The coordinates of n successive top()/pop() pairs, and the queue left.
RECURSIVE PopN(_, _)
PopN(q, n) ==
    IF n = 0 \/ q = {} THEN <<>>
    ELSE <<PqTop(q)[2]>> \o PopN(q \ {PqTop(q)}, n - 1)

RECURSIVE QueueAfter(_, _)
QueueAfter(q, n) ==
    IF n = 0 \/ q = {} THEN q
    ELSE QueueAfter(q \ {PqTop(q)}, n - 1)

\* Mutant: the scan does not skip the blocked cells.
ScanGridAllCells ==
    {<<countUnblockedNeighbors(rowIndex, colIndex), <<rowIndex, colIndex>>>> :
        <<colIndex, rowIndex>> \in (0..(getRowSize - 1)) \X (0..(getColSize - 1))}

\* The lazy initialisation's scan: every unblocked cell with its score.
ScanGrid ==
    {<<countUnblockedNeighbors(rowIndex, colIndex), <<rowIndex, colIndex>>>> :
        <<colIndex, rowIndex>> \in
            {p \in (0..(getRowSize - 1)) \X (0..(getColSize - 1)) :
                isUnblocked(p[2], p[1])}}

\* Mutant: the count is not compared with the number of cells.
SelectorErrorNoLength(numberOfCandidates) ==
    IF numberOfCandidates = 0 THEN "invalid_argument"
    ELSE IF getTotalCells = getNoOfBlockedCells THEN "invalid_argument"
    ELSE IF isExhausted THEN "runtime_error"
    ELSE "none"

\* Mutant: the exhausted flag is not checked.
SelectorErrorNoExhausted(numberOfCandidates) ==
    IF numberOfCandidates = 0 THEN "invalid_argument"
    ELSE IF getTotalCells = getNoOfBlockedCells THEN "invalid_argument"
    ELSE IF numberOfCandidates > getTotalCells THEN "length_error"
    ELSE "none"

\* The validation of findStartingPointCandidates, in the order of the code.
SelectorError(numberOfCandidates) ==
    IF numberOfCandidates = 0 THEN "invalid_argument"
    ELSE IF getTotalCells = getNoOfBlockedCells THEN "invalid_argument"
    ELSE IF numberOfCandidates > getTotalCells THEN "length_error"
    ELSE IF isExhausted THEN "runtime_error"
    ELSE "none"

\* Mutant: every call scans the grid again.
NeedsScanAlways == TRUE

\* The lazy initialisation runs when the queue is empty.
NeedsScan == priorityQueue = {}

Populated == IF NeedsScan THEN ScanGrid ELSE priorityQueue

\* How many candidates a call that passed validation extracts.
Extracted(numberOfCandidates) ==
    IF Cardinality(Populated) > numberOfCandidates
    THEN numberOfCandidates
    ELSE Cardinality(Populated)

\* Mutant: a batch comes out with its least candidate first.
SelectorBatchAscending(numberOfCandidates) ==
    LET batch == PopN(Populated, Extracted(numberOfCandidates))
    IN  [i \in 1..Len(batch) |-> batch[Len(batch) + 1 - i]]

SelectorBatch(numberOfCandidates) == PopN(Populated, Extracted(numberOfCandidates))

SelectorQueue(numberOfCandidates) == QueueAfter(Populated, Extracted(numberOfCandidates))

\* Mutant: the flag is set only when fewer candidates than asked remained.
SelectorExhaustedLate(numberOfCandidates) == Cardinality(Populated) < numberOfCandidates

\* Mutant: every successful call sets the flag.
SelectorExhaustedAlways(numberOfCandidates) == TRUE

\* The flag is set in the else branch, or when the extraction emptied the queue.
SelectorExhausted(numberOfCandidates) ==
    IF Cardinality(Populated) > numberOfCandidates
    THEN SelectorQueue(numberOfCandidates) = {}
    ELSE TRUE

\* The effect of one call on the selector, shared by the direct call and the search.
SelectorCall(numberOfCandidates) ==
    IF SelectorError(numberOfCandidates) # "none"
    THEN /\ error' = SelectorError(numberOfCandidates)
         /\ candidates' = <<>>
         /\ UNCHANGED <<priorityQueue, isExhausted, returned, snapshot, scans>>
    ELSE /\ error' = "none"
         /\ candidates' = SelectorBatch(numberOfCandidates)
         /\ priorityQueue' = SelectorQueue(numberOfCandidates)
         /\ isExhausted' = SelectorExhausted(numberOfCandidates)
         /\ returned' = returned \o SelectorBatch(numberOfCandidates)
         /\ snapshot' = IF NeedsScan THEN TheGrid ELSE snapshot
         /\ scans' = IF NeedsScan THEN Min(scans + 1, 2) ELSE scans

\* A caller's own selector: PathFinderUtils pathFinder;
newPathFinderUtils ==
    /\ pc = "idle"
    /\ priorityQueue' = {}
    /\ isExhausted' = FALSE
    /\ returned' = <<>>
    /\ snapshot' = NoGrid
    /\ scans' = 0
    /\ ret' = TRUE
    /\ candidates' = <<>>
    /\ error' = "none"
    /\ UNCHANGED <<gridVars, dfsVars>>

findStartingPointCandidates(numberOfCandidates) ==
    /\ pc = "idle"
    /\ ret' = TRUE
    /\ UNCHANGED <<gridVars, dfsVars>>
    /\ SelectorCall(numberOfCandidates)

(***************************************************************************)
(* Path                                                                    *)
(***************************************************************************)

addCoordinate(path, row, col) == Append(path, <<row, col>>)

\* getCurrentCoordinate on a non-empty path: back().
getCurrentCoordinate(path) == path[Len(path)]

\* Mutant: the coordinate is removed from the front (pop_front).
getNextCoordinateFront(path) == Tail(path)

\* The path getNextCoordinate leaves on a non-empty path: pop_back().
getNextCoordinate(path) == SubSeq(path, 1, Len(path) - 1)

getLength(path) == Len(path)

isEmpty(path) == Len(path) = 0

clear(path) == <<>>

\* Mutant: the exception of an empty container elsewhere in the library.
PathEmptyErrorLength(path) == IF Len(path) = 0 THEN "length_error" ELSE "none"

\* The exception getNextCoordinate and getCurrentCoordinate throw, "none"
\* when they return.
PathEmptyError(path) == IF Len(path) = 0 THEN "out_of_range" ELSE "none"

\* Mutant: the distances are unsigned differences, second minus first.
isContiguousWrapping(path) ==
    IF Len(path) < 2 THEN TRUE
    ELSE \A i \in 2..Len(path) :
            LET row_dist == (path[i][1] - path[i - 1][1]) % Uint16Range
                col_dist == (path[i][2] - path[i - 1][2]) % Uint16Range
            IN  row_dist + col_dist = 1

\* The distances are uint16_t, each the larger coordinate minus the smaller;
\* their sum is an int.
isContiguous(path) ==
    IF Len(path) < 2 THEN TRUE
    ELSE \A i \in 2..Len(path) :
            LET row1 == path[i - 1][1]
                col1 == path[i - 1][2]
                row2 == path[i][1]
                col2 == path[i][2]
                row_dist == (IF row1 > row2 THEN row1 - row2 ELSE row2 - row1) % Uint16Range
                col_dist == (IF col1 > col2 THEN col1 - col2 ELSE col2 - col1) % Uint16Range
            IN  row_dist + col_dist = 1

\* begin() .. end(): the coordinates a traversal yields, in order.
Traversal(path) == [i \in 1..Len(path) |-> path[i]]

(***************************************************************************)
(* DFSAlgorithm                                                            *)
(***************************************************************************)

\* The batch sizes and path lengths a search is started with.
BatchSizes == (0..(MaxCells + 1)) \cup {Uint8Range, Uint8Range + 1}

PathLengths == 0..(MaxCells + 1)

\* maxStartingPoints.value (uint16_t) passed as uint8_t numberOfCandidates.
ToUint8(n) == n % Uint8Range

\* std::vector<std::vector<bool>> visited(getColSize(), vector<bool>(getRowSize(), false))
FreshVisited == [c \in (0..(getColSize - 1)) \X (0..(getRowSize - 1)) |-> FALSE]

\* The neighbour of a frame's position in its current direction.
NewRow(frame) == frame.row + directions[frame.dir][1]

NewCol(frame) == frame.col + directions[frame.dir][2]

\* Mutant: the visited mask is not consulted.
InBoundsOnly(newRow, newCol) ==
    /\ newRow >= 0 /\ newRow < getColSize
    /\ newCol >= 0 /\ newCol < getRowSize

\* The test that guards an extension, up to the call of isUnblocked.
InBoundsUnvisited(newRow, newCol) ==
    /\ newRow >= 0 /\ newRow < getColSize
    /\ newCol >= 0 /\ newCol < getRowSize
    /\ ~visited[<<newRow, newCol>>]

\* Mutant: the base case is missing and the callee always expands.
dfsRecursiveNoBaseCase(path, mask, callers) ==
    /\ currentPath' = path
    /\ visited' = mask
    /\ stack' = Append(callers, [row |-> getCurrentCoordinate(path)[1],
                                 col |-> getCurrentCoordinate(path)[2],
                                 dir |-> 1])
    /\ pc' = "expand"
    /\ UNCHANGED result

\* A call of dfsRecursive on (path, mask) below the frames of callers: the base
\* case returns true through every caller and findViablePath returns the path;
\* otherwise the callee reads its position and starts with the first direction.
dfsRecursive(path, mask, callers) ==
    /\ currentPath' = path
    /\ visited' = mask
    /\ IF getLength(path) = pathLength
       THEN /\ result' = path
            /\ stack' = <<>>
            /\ pc' = "done"
       ELSE /\ stack' = Append(callers, [row |-> getCurrentCoordinate(path)[1],
                                         col |-> getCurrentCoordinate(path)[2],
                                         dir |-> 1])
            /\ pc' = "expand"
            /\ UNCHANGED result

\* Mutant: the upper bound of the length is not checked.
PathLengthErrorZeroOnly(length) ==
    IF length = 0 THEN "invalid_argument" ELSE "none"

\* The validation of findViablePath.
PathLengthError(length) ==
    IF length = 0 THEN "invalid_argument"
    ELSE IF length > getTotalCells THEN "invalid_argument"
    ELSE "none"

\* findViablePath up to the construction of its selector.
findViablePath(length, batch) ==
    /\ pc = "idle"
    /\ pathLength' = length
    /\ maxStartingPoints' = batch
    /\ priorityQueue' = {}
    /\ isExhausted' = FALSE
    /\ returned' = <<>>
    /\ snapshot' = NoGrid
    /\ scans' = 0
    /\ ret' = TRUE
    /\ candidates' = <<>>
    /\ error' = PathLengthError(length)
    /\ pc' = IF PathLengthError(length) # "none" THEN "done" ELSE "select"
    /\ UNCHANGED <<gridVars, startingPoints, currentPath, visited, stack, result>>

\* Mutant: the loop requests a batch without testing getIsExhausted().
SelectBatchNoCheck ==
    /\ pc = "select"
    /\ SelectorCall(ToUint8(maxStartingPoints))
    /\ startingPoints' = SelectorBatch(ToUint8(maxStartingPoints))
    /\ pc' = IF SelectorError(ToUint8(maxStartingPoints)) # "none" THEN "done" ELSE "attempt"
    /\ UNCHANGED <<ret, result>>
    /\ UNCHANGED <<gridVars, pathLength, maxStartingPoints, currentPath, visited, stack>>

\* The head of the while loop and the request for the next batch.
SelectBatch ==
    /\ pc = "select"
    /\ IF isExhausted
       THEN /\ result' = <<>>
            /\ pc' = "done"
            /\ UNCHANGED <<selVars, outVars, startingPoints>>
       ELSE /\ SelectorCall(ToUint8(maxStartingPoints))
            /\ startingPoints' = SelectorBatch(ToUint8(maxStartingPoints))
            /\ pc' = IF SelectorError(ToUint8(maxStartingPoints)) # "none" THEN "done" ELSE "attempt"
            /\ UNCHANGED <<ret, result>>
    /\ UNCHANGED <<gridVars, pathLength, maxStartingPoints, currentPath, visited, stack>>

\* Mutant: the mask of the previous attempt is reused.
AttemptStartReuseMask ==
    /\ pc = "attempt"
    /\ IF startingPoints = <<>>
       THEN /\ pc' = "select"
            /\ UNCHANGED <<startingPoints, currentPath, visited, stack, result>>
       ELSE LET start == Head(startingPoints)
                mask == IF DOMAIN visited = DOMAIN FreshVisited
                        THEN visited ELSE FreshVisited IN
            /\ startingPoints' = Tail(startingPoints)
            /\ dfsRecursive(addCoordinate(<<>>, start[1], start[2]),
                            [mask EXCEPT ![start] = TRUE],
                            <<>>)
    /\ UNCHANGED <<gridVars, selVars, outVars, pathLength, maxStartingPoints>>

\* One iteration of the for loop over the batch: a fresh mask and path.
AttemptStart ==
    /\ pc = "attempt"
    /\ IF startingPoints = <<>>
       THEN /\ pc' = "select"
            /\ UNCHANGED <<startingPoints, currentPath, visited, stack, result>>
       ELSE LET start == Head(startingPoints) IN
            /\ startingPoints' = Tail(startingPoints)
            /\ dfsRecursive(addCoordinate(<<>>, start[1], start[2]),
                            [FreshVisited EXCEPT ![start] = TRUE],
                            <<>>)
    /\ UNCHANGED <<gridVars, selVars, outVars, pathLength, maxStartingPoints>>

\* One iteration of the loop over the directions in the innermost call.
ExpandDirection ==
    /\ pc = "expand"
    /\ stack # <<>>
    /\ LET frame == stack[Len(stack)] IN
        /\ frame.dir <= 4
        /\ IF InBoundsUnvisited(NewRow(frame), NewCol(frame))
           THEN IF getIndexError(NewRow(frame), NewCol(frame)) # "none"
                THEN /\ error' = getIndexError(NewRow(frame), NewCol(frame))
                     /\ pc' = "done"
                     /\ UNCHANGED <<currentPath, visited, stack, result, ret, candidates>>
                ELSE IF isUnblocked(NewRow(frame), NewCol(frame))
                     THEN /\ dfsRecursive(
                                addCoordinate(currentPath, NewRow(frame), NewCol(frame)),
                                [visited EXCEPT ![<<NewRow(frame), NewCol(frame)>>] = TRUE],
                                stack)
                          /\ UNCHANGED outVars
                     ELSE /\ stack' = [stack EXCEPT ![Len(stack)].dir = frame.dir + 1]
                          /\ UNCHANGED <<pc, currentPath, visited, result, outVars>>
           ELSE /\ stack' = [stack EXCEPT ![Len(stack)].dir = frame.dir + 1]
                /\ UNCHANGED <<pc, currentPath, visited, result, outVars>>
    /\ UNCHANGED <<gridVars, selVars, pathLength, maxStartingPoints, startingPoints>>

\* Mutant: after a failed extension the caller tries the same direction again.
ReturnFalseSameDirection ==
    /\ pc = "expand"
    /\ stack # <<>>
    /\ stack[Len(stack)].dir = 5
    /\ IF Len(stack) = 1
       THEN /\ stack' = <<>>
            /\ pc' = "attempt"
            /\ UNCHANGED <<currentPath, visited>>
       ELSE LET caller == stack[Len(stack) - 1] IN
            /\ currentPath' = getNextCoordinate(currentPath)
            /\ visited' = [visited EXCEPT ![<<NewRow(caller), NewCol(caller)>>] = FALSE]
            /\ stack' = SubSeq(stack, 1, Len(stack) - 1)
            /\ UNCHANGED pc
    /\ UNCHANGED <<gridVars, selVars, outVars, pathLength, maxStartingPoints, startingPoints, result>>

\* Mutant: the caller removes the coordinate but leaves its visited mark.
ReturnFalseKeepVisited ==
    /\ pc = "expand"
    /\ stack # <<>>
    /\ stack[Len(stack)].dir = 5
    /\ IF Len(stack) = 1
       THEN /\ stack' = <<>>
            /\ pc' = "attempt"
            /\ UNCHANGED <<currentPath, visited>>
       ELSE LET caller == stack[Len(stack) - 1] IN
            /\ currentPath' = getNextCoordinate(currentPath)
            /\ stack' = [SubSeq(stack, 1, Len(stack) - 1) EXCEPT ![Len(stack) - 1].dir = caller.dir + 1]
            /\ UNCHANGED <<pc, visited>>
    /\ UNCHANGED <<gridVars, selVars, outVars, pathLength, maxStartingPoints, startingPoints, result>>

\* The innermost call returns false: the caller backtracks, or the attempt ends.
ReturnFalse ==
    /\ pc = "expand"
    /\ stack # <<>>
    /\ stack[Len(stack)].dir = 5
    /\ IF Len(stack) = 1
       THEN /\ stack' = <<>>
            /\ pc' = "attempt"
            /\ UNCHANGED <<currentPath, visited>>
       ELSE LET caller == stack[Len(stack) - 1] IN
            /\ currentPath' = getNextCoordinate(currentPath)
            /\ visited' = [visited EXCEPT ![<<NewRow(caller), NewCol(caller)>>] = FALSE]
            /\ stack' = [SubSeq(stack, 1, Len(stack) - 1) EXCEPT ![Len(stack) - 1].dir = caller.dir + 1]
            /\ UNCHANGED pc
    /\ UNCHANGED <<gridVars, selVars, outVars, pathLength, maxStartingPoints, startingPoints, result>>

(***************************************************************************)
(* Specifications                                                          *)
(***************************************************************************)

\* The grid with its counters.
Counted ==
    [rows |-> rows, cols |-> cols, worldMatrix |-> worldMatrix,
     noOfUnblockedCells |-> noOfUnblockedCells, noOfBlockedCells |-> noOfBlockedCells]

NoCall == [op |-> "none", args |-> <<>>, before |-> <<>>]

Call(op, args) == [op |-> op, args |-> args, before |-> Counted]

\* A call that returns a value other than a bool of success.
Query(op, args, value) ==
    [op |-> op, args |-> args, before |-> Counted, value |-> value]

\* What a call that throws returns.
Nothing == <<>>

\* MatrixWorld(rows, cols) with valid dimensions and a fresh selector.
InitWith(dims) ==
    /\ \E d \in dims :
        /\ rows = d[1]
        /\ cols = d[2]
        /\ worldMatrix = [i \in 1..(d[1] * d[2]) |-> FALSE]
        /\ noOfUnblockedCells = d[1] * d[2]
        /\ noOfBlockedCells = 0
    /\ ret = TRUE
    /\ priorityQueue = {}
    /\ isExhausted = FALSE
    /\ candidates = <<>>
    /\ error = "none"
    /\ returned = <<>>
    /\ snapshot = NoGrid
    /\ scans = 0
    /\ pc = "idle"
    /\ pathLength = 0
    /\ maxStartingPoints = 0
    /\ startingPoints = <<>>
    /\ currentPath = <<>>
    /\ visited = <<>>
    /\ stack = <<>>
    /\ result = <<>>
    /\ last = NoCall

Init == InitWith(Dims)

InitMut == InitWith(DimsUpTo(MaxMutatedCells))

SetCellStep == \E row \in 0..rows, col \in 0..cols, state \in BOOLEAN : setCell(row, col, state)

ResizeStep == \E r \in 0..MaxCells, c \in 0..MaxCells : r * c <= MaxCells /\ matrixResize(r, c)

SelectorStep(n) == \E numberOfCandidates \in 0..(n + 1) : findStartingPointCandidates(numberOfCandidates)

\* A selector has scanned the grid and has not been replaced by a new one.
SessionOpen == scans > 0

\* The selector used directly on a grid that is not mutated while one selector
\* is in use (a selector serves one search, and the grid is not updated during
\* a search); the grid is mutated between the sessions.
NextSel ==
    \/ ~SessionOpen /\ SetCellStep
    \/ ~SessionOpen /\ ResizeStep
    \/ ~SessionOpen /\ clearMatrix
    \/ newPathFinderUtils
    \/ SelectorStep(MaxCells)

SpecSel == Init /\ [][NextSel /\ UNCHANGED last]_vars

\* The selector used directly, with cells of the grid blocked and unblocked
\* between its calls.
NextMut ==
    \/ SetCellStep
    \/ clearMatrix
    \/ newPathFinderUtils
    \/ SelectorStep(MaxMutatedCells)

SpecMut == InitMut /\ [][NextMut /\ UNCHANGED last]_vars

SearchStep == \E length \in PathLengths, batch \in BatchSizes : findViablePath(length, batch)

\* The program: a grid is constructed, cells are blocked, and one search runs
\* on it to its end.
NextDfs ==
    \/ SetCellStep
    \/ clearMatrix
    \/ SearchStep
    \/ SelectBatch
    \/ AttemptStart
    \/ ExpandDirection
    \/ ReturnFalse

SpecDfs == Init /\ [][NextDfs /\ UNCHANGED last]_vars

\* The steps of a running findViablePath; a call that has started runs on
\* until it returns or throws.
SearchProgress ==
    (SelectBatch \/ AttemptStart \/ ExpandDirection \/ ReturnFalse) /\ UNCHANGED last

SpecDfsLive == InitMut /\ [][NextDfs /\ UNCHANGED last]_vars /\ WF_vars(SearchProgress)

\* The coordinates a caller passes: those of the grid and one row and one
\* column beyond it.
Coordinates == (0..rows) \X (0..cols)

CoordinateLists == UNION {[1..n -> Coordinates] : n \in 0..MaxCoordinates}

GridSizes == {d \in (0..MaxGridCells) \X (0..MaxGridCells) : d[1] * d[2] <= MaxGridCells}

InitGrid == InitWith(DimsUpTo(MaxGridCells))

\* The caller makes one call at a time: the record of a call is kept until
\* the caller has looked at its outcome.
ConstructCall ==
    /\ last = NoCall
    /\ \E d \in GridSizes : MatrixWorld(d[1], d[2]) /\ last' = Call("MatrixWorld", d)

ResizeCall ==
    /\ last = NoCall
    /\ \E d \in GridSizes : matrixResize(d[1], d[2]) /\ last' = Call("matrixResize", d)

SetCellCall ==
    /\ last = NoCall
    /\ \E c \in Coordinates, state \in BOOLEAN :
        setCell(c[1], c[2], state) /\ last' = Call("setCell", <<c[1], c[2], state>>)

BlankingCall ==
    /\ last = NoCall
    /\ \E coordinates \in CoordinateLists :
        matrixBlanking(coordinates) /\ last' = Call("matrixBlanking", coordinates)

ClearCall ==
    /\ last = NoCall
    /\ clearMatrix
    /\ last' = Call("clearMatrix", <<>>)

\* A const member function of the grid was called and returned value, or
\* threw thrown.
Queried(op, args, thrown, value) ==
    /\ pc = "idle"
    /\ last = NoCall
    /\ error' = thrown
    /\ last' = Query(op, args, IF thrown = "none" THEN value ELSE Nothing)
    /\ ret' = TRUE
    /\ candidates' = <<>>
    /\ UNCHANGED <<gridVars, selVars, dfsVars>>

IsUnblockedCall ==
    \E c \in Coordinates :
        Queried("isUnblocked", c, getIndexError(c[1], c[2]),
                IF getIndexError(c[1], c[2]) = "none" THEN isUnblocked(c[1], c[2]) ELSE Nothing)

NeighborsCall ==
    \E c \in Coordinates :
        Queried("countUnblockedNeighbors", c, countUnblockedNeighborsError(c[1], c[2]),
                countUnblockedNeighbors(c[1], c[2]))

RatioCall ==
    Queried("getBlockedToUnblockedRatio", <<>>, getBlockedToUnblockedRatioError,
            getBlockedToUnblockedRatio)

\* The caller has looked at the outcome; the grid is as the call left it.
Observe ==
    /\ last # NoCall
    /\ last' = NoCall
    /\ UNCHANGED <<gridVars, selVars, outVars, dfsVars>>

\* The grid used directly, by any sequence of its operations.
NextGrid ==
    \/ ConstructCall
    \/ ResizeCall
    \/ SetCellCall
    \/ BlankingCall
    \/ ClearCall
    \/ IsUnblockedCall
    \/ NeighborsCall
    \/ RatioCall
    \/ Observe

SpecGrid == InitGrid /\ [][NextGrid]_vars

\* The coordinates a caller puts on a path: small ones and the largest uint16_t.
PathValues == {0, 1, 2, Uint16Range - 1}

PathCoordinates == PathValues \X PathValues

\* A call on the path: its name, arguments, the path before it and its value.
PathCall(op, args, value) ==
    [op |-> op, args |-> args, before |-> currentPath, value |-> value]

\* A member function of Path was called; it left the path as after, and
\* returned value or threw thrown.
PathCalled(op, args, after, thrown, value) ==
    /\ pc = "idle"
    /\ last = NoCall
    /\ currentPath' = after
    /\ error' = thrown
    /\ last' = PathCall(op, args, IF thrown = "none" THEN value ELSE Nothing)
    /\ UNCHANGED <<gridVars, selVars, ret, candidates, pathLength, maxStartingPoints,
                   startingPoints, visited, stack, result, pc>>

AddCoordinateCall ==
    /\ Len(currentPath) < MaxPathCoordinates
    /\ \E c \in PathCoordinates :
        PathCalled("addCoordinate", c, addCoordinate(currentPath, c[1], c[2]), "none", Nothing)

GetNextCoordinateCall ==
    PathCalled("getNextCoordinate", <<>>,
               IF PathEmptyError(currentPath) = "none"
               THEN getNextCoordinate(currentPath) ELSE currentPath,
               PathEmptyError(currentPath),
               IF Len(currentPath) > 0 THEN currentPath[Len(currentPath)] ELSE Nothing)

GetCurrentCoordinateCall ==
    PathCalled("getCurrentCoordinate", <<>>, currentPath, PathEmptyError(currentPath),
               IF Len(currentPath) > 0 THEN getCurrentCoordinate(currentPath) ELSE Nothing)

IsContiguousCall ==
    PathCalled("isContiguous", <<>>, currentPath, "none", isContiguous(currentPath))

IsEmptyCall ==
    PathCalled("isEmpty", <<>>, currentPath, "none", isEmpty(currentPath))

GetLengthCall ==
    PathCalled("getLength", <<>>, currentPath, "none", getLength(currentPath))

PathClearCall ==
    PathCalled("clear", <<>>, clear(currentPath), "none", Nothing)

TraversalCall ==
    PathCalled("begin", <<>>, currentPath, "none", Traversal(currentPath))

\* A path used directly, by any sequence of its operations.
NextPath ==
    \/ AddCoordinateCall
    \/ GetNextCoordinateCall
    \/ GetCurrentCoordinateCall
    \/ IsContiguousCall
    \/ IsEmptyCall
    \/ GetLengthCall
    \/ PathClearCall
    \/ TraversalCall
    \/ Observe

\* Path(): an empty path, beside a grid of the default dimensions.
InitPath == InitWith({<<2, 2>>})

SpecPath == InitPath /\ [][NextPath]_vars

\* Grids around the 16-bit limit of the counter accessors: sides of 1, 2 and
\* 255..257 cells, every cell unblocked or every cell blocked (the state
\* after construction, and that after blocking each cell).
WideDims == {1, 2, Uint8Range} \X {1, Uint8Range - 1, Uint8Range, Uint8Range + 1}

InitWide ==
    /\ \E d \in WideDims, blocked \in BOOLEAN :
        /\ rows = d[1]
        /\ cols = d[2]
        /\ worldMatrix = [i \in 1..(d[1] * d[2]) |-> blocked]
        /\ noOfUnblockedCells = IF blocked THEN 0 ELSE d[1] * d[2]
        /\ noOfBlockedCells = IF blocked THEN d[1] * d[2] ELSE 0
    /\ ret = TRUE
    /\ priorityQueue = {}
    /\ isExhausted = FALSE
    /\ candidates = <<>>
    /\ error = "none"
    /\ returned = <<>>
    /\ snapshot = NoGrid
    /\ scans = 0
    /\ pc = "idle"
    /\ pathLength = 0
    /\ maxStartingPoints = 0
    /\ startingPoints = <<>>
    /\ currentPath = <<>>
    /\ visited = <<>>
    /\ stack = <<>>
    /\ result = <<>>
    /\ last = NoCall

\* setCell on a corner of the grid.
CornerSetCellCall ==
    /\ last = NoCall
    /\ \E row \in {0, rows - 1}, col \in {0, cols - 1}, state \in BOOLEAN :
        setCell(row, col, state) /\ last' = Call("setCell", <<row, col, state>>)

\* The caller reads both counters and the number of cells.
CountersCall ==
    /\ last = NoCall
    /\ Queried("getNoOfCells", <<>>, "none",
               <<getNoOfUnblockedCells, getNoOfBlockedCells, getTotalCells>>)

NextWide ==
    \/ CornerSetCellCall
    \/ ClearCall
    \/ CountersCall
    \/ Observe

SpecWide == InitWide /\ [][NextWide]_vars

\* Grids with as many cells as a batch size beyond uint8_t.
BatchDims == {<<1, Uint8Range>>, <<Uint8Range, 1>>, <<1, Uint8Range + 1>>}

InitBatch == InitWith(BatchDims)

CornerSetCellStep ==
    \E row \in {0, rows - 1}, col \in {0, cols - 1}, state \in BOOLEAN : setCell(row, col, state)

\* findViablePath with a batch size of one candidate and with the first
\* batch sizes that do not fit uint8_t.
WideBatchSizes == {1, Uint8Range, Uint8Range + 1}

ShortPathLengths == 1..MaxPathCoordinates

WideSearchStep ==
    \E length \in ShortPathLengths, batch \in WideBatchSizes : findViablePath(length, batch)

NextBatch ==
    \/ CornerSetCellStep
    \/ WideSearchStep
    \/ SelectBatch
    \/ AttemptStart
    \/ ExpandDirection
    \/ ReturnFalse

SpecBatch == InitBatch /\ [][NextBatch /\ UNCHANGED last]_vars

(***************************************************************************)
(* Properties                                                              *)
(***************************************************************************)

\* What the properties say about a grid g = [rows, cols, worldMatrix] is
\* stated on its bits, without the operations of the model.
Abs(x) == IF x < 0 THEN -x ELSE x

CellsOf(g) == (0..(g.rows - 1)) \X (0..(g.cols - 1))

UnblockedCellsOf(g) == {c \in CellsOf(g) : ~g.worldMatrix[(c[1] * g.cols) + c[2] + 1]}

Adjacent(a, b) == Abs(a[1] - b[1]) + Abs(a[2] - b[2]) = 1

\* p is a sequence of distinct unblocked cells of g, consecutive ones 4-adjacent.
IsSimplePath(g, p) ==
    /\ \A i \in 1..Len(p) : p[i] \in UnblockedCellsOf(g)
    /\ \A i \in 1..(Len(p) - 1) : Adjacent(p[i], p[i + 1])
    /\ \A i, j \in 1..Len(p) : i # j => p[i] # p[j]

\* Every simple path of n cells in g.
RECURSIVE SimplePaths(_, _)
SimplePaths(g, n) ==
    IF n <= 0 THEN {<<>>}
    ELSE IF n = 1 THEN {<<c>> : c \in UnblockedCellsOf(g)}
    ELSE {Append(x[1], x[2]) :
            x \in {y \in SimplePaths(g, n - 1) \X UnblockedCellsOf(g) :
                    /\ Adjacent(y[1][Len(y[1])], y[2])
                    /\ \A i \in 1..Len(y[1]) : y[1][i] # y[2]}}

Returned == pc = "done" /\ error = "none"

\* C1: a non-empty path returned by findViablePath has exactly pathLength
\* coordinates, all of them in-bounds unblocked cells, consecutive ones
\* 4-adjacent, none twice.
C1_FoundPathIsValid ==
    (Returned /\ result # <<>>) =>
        /\ Len(result) = pathLength
        /\ IsSimplePath(TheGrid, result)

\* A path of four or more cells was found on a grid with a blocked cell.
C1_Witness ==
    /\ Returned
    /\ Len(result) >= 4
    /\ UnblockedCellsOf(TheGrid) # CellsOf(TheGrid)

\* C2: findViablePath returns the empty path only if the grid holds no simple
\* path of pathLength unblocked cells.
C2_EmptyOnlyIfNoPath ==
    (Returned /\ result = <<>>) => SimplePaths(TheGrid, pathLength) = {}

\* The empty path was returned after several batches, on a grid with enough
\* unblocked cells for the length asked.
C2_Witness ==
    /\ Returned
    /\ result = <<>>
    /\ pathLength >= 2
    /\ Cardinality(UnblockedCellsOf(TheGrid)) >= pathLength
    /\ maxStartingPoints \in 1..getTotalCells
    /\ Len(returned) > maxStartingPoints

\* C3: with a path length of 0 or above the number of cells, findViablePath
\* ends with invalid_argument and has asked its selector for nothing.
C3_InvalidLengthRejected ==
    (pc # "idle" /\ (pathLength = 0 \/ pathLength > getTotalCells)) =>
        /\ pc = "done"
        /\ error = "invalid_argument"
        /\ result = <<>>
        /\ scans = 0
        /\ returned = <<>>
        /\ priorityQueue = {}

\* A length above the number of cells was rejected, with a valid batch size.
C3_Witness ==
    /\ pc = "done"
    /\ pathLength > getTotalCells
    /\ error = "invalid_argument"
    /\ maxStartingPoints \in 1..getTotalCells
    /\ UnblockedCellsOf(TheGrid) # {}

\* The score of cell c in grid g: its unblocked 4-neighbours inside g.
ScoreOf(g, c) == Cardinality({d \in UnblockedCellsOf(g) : Adjacent(c, d)})

\* d comes out before c: greater in the order of (score, row, col).
Before(g, d, c) ==
    \/ ScoreOf(g, d) > ScoreOf(g, c)
    \/ /\ ScoreOf(g, d) = ScoreOf(g, c)
       /\ \/ d[1] > c[1]
          \/ d[1] = c[1] /\ d[2] > c[2]

\* The number of unblocked cells of g that come out before c.
RankIn(g, c) == Cardinality({d \in UnblockedCellsOf(g) : Before(g, d, c)})

\* b is the next n candidates of a selector that scored g and has returned k.
IsExpectedBatch(b, g, k, n) ==
    /\ Len(b) = Min(n, Cardinality(UnblockedCellsOf(g)) - k)
    /\ \A i \in 1..Len(b) :
        /\ b[i] \in UnblockedCellsOf(g)
        /\ RankIn(g, b[i]) = k + i - 1

Counts == 0..(MaxCells + 1)

ReturnedSet == {returned[i] : i \in 1..Len(returned)}

\* C4: the batches of one selector never repeat a cell and hold only cells
\* that were unblocked when it scanned the grid; once it is exhausted they
\* hold every such cell.
C4_BatchesPartitionUnblocked ==
    /\ ReturnedSet \subseteq UnblockedCellsOf(snapshot)
    /\ \A i, j \in 1..Len(returned) : i # j => returned[i] # returned[j]
    /\ isExhausted => ReturnedSet = UnblockedCellsOf(snapshot)

\* A selector was exhausted by its second or later batch on a grid with a
\* blocked cell.
C4_Witness ==
    /\ isExhausted
    /\ Len(returned) >= 4
    /\ candidates # <<>>
    /\ Len(candidates) < Len(returned)
    /\ UnblockedCellsOf(snapshot) # CellsOf(snapshot)

\* The candidates a selector still holds, before its scan those it would find.
RemainingCandidates ==
    IF scans > 0 THEN Cardinality(priorityQueue)
    ELSE Cardinality(UnblockedCellsOf(TheGrid))

C5_Call(n) ==
    (findStartingPointCandidates(n) /\ n \in 1..getTotalCells /\ ~isExhausted) =>
        /\ Len(candidates') = Min(n, RemainingCandidates)
        /\ RemainingCandidates > 0 => error' = "none"

C6_ScoresNonIncreasing ==
    \A i, j \in 1..Len(returned) :
        i < j => ScoreOf(snapshot, returned[i]) >= ScoreOf(snapshot, returned[j])

\* A later batch holds a cell of a strictly lower score than the first cell.
C6_Witness ==
    /\ candidates # <<>>
    /\ Len(candidates) < Len(returned)
    /\ ScoreOf(snapshot, returned[1]) > ScoreOf(snapshot, candidates[1])
    /\ ScoreOf(snapshot, candidates[1]) > ScoreOf(snapshot, candidates[Len(candidates)])

\* A call with a valid count on a selector that has scanned and is not exhausted.
LaterCall(n) ==
    /\ findStartingPointCandidates(n)
    /\ scans > 0
    /\ ~isExhausted
    /\ n \in 1..getTotalCells

C8_FullyBlockedRejected ==
    [][\A n \in Counts :
        (findStartingPointCandidates(n) /\ UnblockedCellsOf(TheGrid) = {}) =>
            error' = "invalid_argument"]_vars

C9_Frame == error' # "none" => (candidates' = <<>> /\ UNCHANGED <<priorityQueue, isExhausted>>)

\* C9 as claimed: a count of 0 is rejected with invalid_argument, a count
\* above the number of cells with length_error, and a rejected call leaves
\* the queue and the flag unchanged.
C9_CountRejected ==
    [][\A n \in Counts :
        findStartingPointCandidates(n) =>
            /\ n = 0 => error' = "invalid_argument"
            /\ n > getTotalCells => error' = "length_error"
            /\ C9_Frame]_vars

\* C9 amended: as claimed, but a count above the number of cells is rejected
\* with invalid_argument when the blocked counter equals the number of cells.
C9_CountRejectedInOrder ==
    [][\A n \in Counts :
        findStartingPointCandidates(n) =>
            /\ n = 0 => error' = "invalid_argument"
            /\ n > getTotalCells =>
                error' = IF noOfBlockedCells = Len(worldMatrix)
                         THEN "invalid_argument" ELSE "length_error"
            /\ C9_Frame]_vars

\* A count above the number of cells was rejected while candidates remained.
C9_Witness ==
    /\ error = "length_error"
    /\ scans = 1
    /\ priorityQueue # {}
    /\ returned # <<>>

C11_CountersAddUp ==
    /\ noOfUnblockedCells + noOfBlockedCells = rows * cols
    /\ rows > 0
    /\ cols > 0

\* A grid with blocked cells was resized to another number of cells.
C11_Witness ==
    /\ last.op = "matrixResize"
    /\ ret = TRUE
    /\ last.before.noOfBlockedCells > 0
    /\ last.before.rows * last.before.cols # rows * cols

\* C12: after a successful matrixResize of a grid in any state every cell is
\* unblocked, the unblocked counter is the new rows * cols and the blocked
\* counter is 0.
C12_ResizeDiscardsCells ==
    (last.op = "matrixResize" /\ ret = TRUE) =>
        /\ \A i \in 1..Len(worldMatrix) : ~worldMatrix[i]
        /\ noOfUnblockedCells = rows * cols
        /\ noOfBlockedCells = 0

\* The cell (row, col) of the grid as it was before the last call.
InBoundsBefore(row, col) == row < last.before.rows /\ col < last.before.cols

BlockedBefore(row, col) == last.before.worldMatrix[(row * last.before.cols) + col + 1]

\* The last call was setCell on a cell of the grid.
SetCellInBounds == last.op = "setCell" /\ InBoundsBefore(last.args[1], last.args[2])

\* C13: setCell on a cell of the grid that already has the requested state
\* returns true and leaves the cells and both counters as they were.
C13_SameStateSucceeds ==
    (SetCellInBounds /\ BlockedBefore(last.args[1], last.args[2]) = last.args[3]) =>
        /\ ret = TRUE
        /\ Counted = last.before

\* The last call was matrixBlanking; its list, and the places in it of the
\* coordinates outside the grid.
Blanking == last.op = "matrixBlanking"

OutOfBounds == {i \in 1..Len(last.args) : ~InBoundsBefore(last.args[i][1], last.args[i][2])}

\* C14: matrixBlanking returns false, and raises nothing, when its list holds
\* a coordinate outside the grid.
C14_OutOfBoundsReturnsFalse ==
    (Blanking /\ OutOfBounds # {}) => (error = "none" /\ ret = FALSE)

\* The indexes of the cells named by the first k coordinates of the list.
IndexBefore(c) == (c[1] * last.before.cols) + c[2] + 1

Applied(k) == {IndexBefore(last.args[i]) : i \in 1..k}

\* The cells and counters after blocking the first k coordinates of the list.
CellsAfter(k) ==
    [i \in 1..Len(last.before.worldMatrix) |-> last.before.worldMatrix[i] \/ i \in Applied(k)]

NewlyBlocked(k) == {i \in Applied(k) : ~last.before.worldMatrix[i]}

\* The call failed: it returned false or raised.
BlankingFailed == Blanking /\ (error # "none" \/ ret = FALSE)

\* C15: when matrixBlanking fails on a coordinate, the coordinates before it
\* are blocked and counted, and the coordinates after it are not applied: the
\* cells and counters are those after blocking exactly the preceding ones.
C15_NoRollback ==
    BlankingFailed =>
        \E k \in OutOfBounds :
            /\ \A i \in 1..(k - 1) : i \notin OutOfBounds
            /\ worldMatrix = CellsAfter(k - 1)
            /\ noOfBlockedCells = last.before.noOfBlockedCells + Cardinality(NewlyBlocked(k - 1))
            /\ noOfUnblockedCells = last.before.noOfUnblockedCells - Cardinality(NewlyBlocked(k - 1))

\* A call failed on its second coordinate after blocking an unblocked cell.
C15_Witness ==
    /\ BlankingFailed
    /\ OutOfBounds = {2}
    /\ NewlyBlocked(1) # {}
    /\ worldMatrix # last.before.worldMatrix
    /\ noOfBlockedCells = last.before.noOfBlockedCells + 1

\* C16: matrixBlanking on coordinates of the grid, blocked already or repeated
\* or not, returns true; every listed cell is blocked, no other cell changed,
\* and the blocked counter grew by the number of distinct listed cells that
\* were unblocked.
C16_BlankingBlocksListed ==
    (Blanking /\ OutOfBounds = {}) =>
        /\ ret = TRUE
        /\ error = "none"
        /\ worldMatrix = CellsAfter(Len(last.args))
        /\ noOfBlockedCells =
              last.before.noOfBlockedCells + Cardinality(NewlyBlocked(Len(last.args)))
        /\ rows = last.before.rows
        /\ cols = last.before.cols

\* A list of a cell that was already blocked and a cell that was not.
C16_Witness ==
    /\ Blanking
    /\ OutOfBounds = {}
    /\ Len(last.args) = 2
    /\ BlockedBefore(last.args[1][1], last.args[1][2])
    /\ ~BlockedBefore(last.args[2][1], last.args[2][2])
    /\ ret = TRUE

\* The cells before the last call with the cell (row, col) set to state.
CellsWith(row, col, state) ==
    [last.before.worldMatrix EXCEPT ![IndexBefore(<<row, col>>)] = state]

\* C17: a setCell call that changes a cell of the grid returns true, flips
\* exactly that cell and moves exactly one unit between the two counters,
\* from unblocked to blocked when blocking and back when unblocking (so that
\* blocking a cell and unblocking it again restores the cell and the counters).
C17_ChangeMovesOneUnit ==
    (SetCellInBounds /\ BlockedBefore(last.args[1], last.args[2]) # last.args[3]) =>
        /\ ret = TRUE
        /\ worldMatrix = CellsWith(last.args[1], last.args[2], last.args[3])
        /\ rows = last.before.rows
        /\ cols = last.before.cols
        /\ IF last.args[3]
           THEN /\ noOfUnblockedCells = last.before.noOfUnblockedCells - 1
                /\ noOfBlockedCells = last.before.noOfBlockedCells + 1
           ELSE /\ noOfUnblockedCells = last.before.noOfUnblockedCells + 1
                /\ noOfBlockedCells = last.before.noOfBlockedCells - 1

\* C18: setCell with row >= rows or col >= cols returns false, raises nothing
\* and leaves every cell and both counters as they were.
C18_OutOfBoundsIgnored ==
    (last.op = "setCell" /\ ~InBoundsBefore(last.args[1], last.args[2])) =>
        /\ ret = FALSE
        /\ error = "none"
        /\ Counted = last.before

\* A column beyond the grid in a row that is not the last one (the flat index
\* is that of a cell of the next row), on a grid with a blocked cell.
C18_Witness ==
    /\ last.op = "setCell"
    /\ last.args[2] >= cols
    /\ last.args[1] + 1 < rows
    /\ last.args[3] = TRUE
    /\ noOfBlockedCells > 0
    /\ ret = FALSE

\* C19: matrixResize with zero rows or zero columns returns false, raises
\* nothing and leaves the dimensions, the cells and the counters as they were.
C19_ZeroResizeRejected ==
    (last.op = "matrixResize" /\ (last.args[1] = 0 \/ last.args[2] = 0)) =>
        /\ ret = FALSE
        /\ error = "none"
        /\ Counted = last.before

\* A grid with a blocked cell was asked to resize to no rows and some columns.
C19_Witness ==
    /\ last.op = "matrixResize"
    /\ last.args[1] = 0
    /\ last.args[2] > 0
    /\ noOfBlockedCells > 0
    /\ \E i \in 1..Len(worldMatrix) : worldMatrix[i]
    /\ ret = FALSE

\* C20: constructing a grid with zero rows or zero columns fails with
\* invalid_argument; with positive dimensions every cell is unblocked, the
\* unblocked counter is rows * cols, the blocked counter is 0 and
\* getTotalCells is rows * cols.
C20_Construction ==
    last.op = "MatrixWorld" =>
        IF last.args[1] = 0 \/ last.args[2] = 0
        THEN error = "invalid_argument"
        ELSE /\ error = "none"
             /\ rows = last.args[1]
             /\ cols = last.args[2]
             /\ \A i \in 1..Len(worldMatrix) : ~worldMatrix[i]
             /\ noOfUnblockedCells = last.args[1] * last.args[2]
             /\ noOfBlockedCells = 0
             /\ getTotalCells = last.args[1] * last.args[2]

\* A grid of three or more cells was constructed where one with blocked cells was.
C20_Witness ==
    /\ last.op = "MatrixWorld"
    /\ error = "none"
    /\ last.before.noOfBlockedCells > 0
    /\ getTotalCells >= 3

\* C21: isUnblocked fails with invalid_argument for every coordinate with
\* row >= rows or col >= cols; for a coordinate of the grid it returns true
\* exactly when the cell at the row-major index row * cols + col is not
\* blocked; it changes nothing of the grid.
C21_IsUnblocked ==
    last.op = "isUnblocked" =>
        /\ Counted = last.before
        /\ IF last.args[1] >= rows \/ last.args[2] >= cols
           THEN error = "invalid_argument"
           ELSE /\ error = "none"
                /\ last.value = ~worldMatrix[(last.args[1] * cols) + last.args[2] + 1]

\* A blocked cell of a grid of two rows or more was asked for, away from the
\* diagonal and with the cell at the transposed index unblocked.
C21_Witness ==
    /\ last.op = "isUnblocked"
    /\ error = "none"
    /\ last.value = FALSE
    /\ rows >= 2
    /\ cols >= 2
    /\ last.args[1] # last.args[2]
    /\ ~worldMatrix[(last.args[2] * rows) + last.args[1] + 1]

\* The cells above, right of, below and left of c.
FourNeighbours(c) ==
    {<<c[1] - 1, c[2]>>, <<c[1], c[2] + 1>>, <<c[1] + 1, c[2]>>, <<c[1], c[2] - 1>>}

InsideGrid(d) == d[1] \in 0..(rows - 1) /\ d[2] \in 0..(cols - 1)

BlockedNow(d) == worldMatrix[(d[1] * cols) + d[2] + 1]

\* C22: countUnblockedNeighbors never raises and changes nothing; it returns
\* 0 for a centre outside the grid, and for a centre of the grid, blocked or
\* not, the number of its four neighbours that are inside the grid and
\* unblocked.
C22_NeighbourCount ==
    last.op = "countUnblockedNeighbors" =>
        /\ error = "none"
        /\ Counted = last.before
        /\ last.value =
              IF InsideGrid(last.args)
              THEN Cardinality({d \in FourNeighbours(last.args) : InsideGrid(d) /\ ~BlockedNow(d)})
              ELSE 0

\* A blocked centre in a corner with an unblocked and a blocked neighbour.
C22_Witness ==
    /\ last.op = "countUnblockedNeighbors"
    /\ InsideGrid(last.args)
    /\ BlockedNow(last.args)
    /\ last.value >= 1
    /\ \E d \in FourNeighbours(last.args) : InsideGrid(d) /\ BlockedNow(d)
    /\ \E d \in FourNeighbours(last.args) : ~InsideGrid(d)

\* A reference stack, top first: the coordinates of s, the last one first.
Reverse(s) == [i \in 1..Len(s) |-> s[Len(s) + 1 - i]]

Push(stk, c) == <<c>> \o stk

\* The last call was the path operation op.
OnPath(op) == last.op = op /\ error = "none"

\* C23: the path is the sequence a reference stack holds: addCoordinate
\* pushes, getNextCoordinate returns and removes the top, getCurrentCoordinate
\* returns the top, getLength is the height, isEmpty holds exactly at height
\* 0, clear empties, a traversal yields the coordinates in the order they
\* were added; only addCoordinate, getNextCoordinate and clear change the path.
C23_PathIsStack ==
    /\ OnPath("addCoordinate") => Reverse(currentPath) = Push(Reverse(last.before), last.args)
    /\ OnPath("getNextCoordinate") =>
            /\ last.value = Head(Reverse(last.before))
            /\ Reverse(currentPath) = Tail(Reverse(last.before))
    /\ OnPath("getCurrentCoordinate") =>
            /\ last.value = Head(Reverse(last.before))
            /\ currentPath = last.before
    /\ OnPath("getLength") =>
            /\ last.value = Len(Reverse(last.before))
            /\ currentPath = last.before
    /\ OnPath("isEmpty") =>
            /\ last.value = (Reverse(last.before) = <<>>)
            /\ currentPath = last.before
    /\ OnPath("clear") => currentPath = <<>>
    /\ OnPath("begin") =>
            /\ last.value = Reverse(Reverse(last.before))
            /\ currentPath = last.before
    /\ OnPath("isContiguous") => currentPath = last.before

\* The last of three different coordinates was removed.
C23_Witness ==
    /\ OnPath("getNextCoordinate")
    /\ Len(last.before) = 3
    /\ last.before[1] # last.before[3]
    /\ last.before[2] # last.before[3]
    /\ Len(currentPath) = 2

\* C24: isContiguous returns true exactly when every two consecutive
\* coordinates differ by 1 in |row difference| + |column difference|,
\* whichever of the two is larger; so a path of 0 or 1 coordinates is
\* contiguous, and a repeated coordinate or a diagonal step is not.
C24_Contiguity ==
    OnPath("isContiguous") =>
        last.value = (\A i \in 1..(Len(last.before) - 1) :
                        Abs(last.before[i][1] - last.before[i + 1][1])
                        + Abs(last.before[i][2] - last.before[i + 1][2]) = 1)

\* A contiguous path of three coordinates that steps to a smaller row and
\* then to a smaller column.
C24_Witness ==
    /\ OnPath("isContiguous")
    /\ last.value = TRUE
    /\ Len(last.before) = 3
    /\ last.before[1][1] > last.before[2][1]
    /\ last.before[2][2] > last.before[3][2]

\* C25: getNextCoordinate and getCurrentCoordinate on an empty path fail with
\* out_of_range and leave the path empty, however the path became empty.
C25_EmptyPathRejected ==
    (last.op \in {"getNextCoordinate", "getCurrentCoordinate"} /\ last.before = <<>>) =>
        /\ error = "out_of_range"
        /\ currentPath = <<>>

\* getNextCoordinate was rejected on an empty path.
C25_Witness ==
    /\ last.op = "getNextCoordinate"
    /\ last.before = <<>>
    /\ error = "out_of_range"
    /\ currentPath = <<>>

\* The coordinates with row < rows and col < cols, and the unblocked ones.
GridCells == (0..(rows - 1)) \X (0..(cols - 1))

UnblockedGridCells == {c \in GridCells : ~BlockedNow(c)}

\* Every coordinate the selector holds or has returned.
Scanned == {e[2] : e \in priorityQueue} \cup ReturnedSet

\* C26: on every grid, square or not, getRowSize is the number of columns
\* and getColSize the number of rows; the scan of the selector finds exactly
\* the unblocked coordinates with row < rows and col < cols, and the search
\* keeps a mask over exactly these coordinates and accepts a neighbour
\* exactly when it is one of them and is not visited.
C26_AccessorsCoverGrid ==
    /\ getRowSize = cols
    /\ getColSize = rows
    /\ scans > 0 => Scanned = UnblockedGridCells
    /\ pc = "expand" =>
        /\ DOMAIN visited = GridCells
        /\ \A d \in (-1..rows) \X (-1..cols) :
              InBoundsUnvisited(d[1], d[2]) <=> (d \in GridCells /\ ~visited[d])

\* The search of a grid with more rows than columns stands on a cell whose
\* row is not a valid column, and the selector has scanned such a cell too.
C26_Witness ==
    /\ pc = "expand"
    /\ rows > cols
    /\ cols >= 2
    /\ getCurrentCoordinate(currentPath)[1] >= cols
    /\ \E c \in Scanned : c[1] >= cols

\* C27: getBlockedToUnblockedRatio fails, with invalid_argument, exactly when
\* the blocked counter or the unblocked counter is 0; otherwise it returns the
\* blocked counter over the unblocked one; it changes nothing.
C27_RatioRejectsZero ==
    last.op = "getBlockedToUnblockedRatio" =>
        /\ Counted = last.before
        /\ IF noOfBlockedCells = 0 \/ noOfUnblockedCells = 0
           THEN error = "invalid_argument"
           ELSE error = "none" /\ last.value = <<noOfBlockedCells, noOfUnblockedCells>>

\* The ratio was refused for a grid without blocked cells, where the divisor
\* is not 0.
C27_Witness ==
    /\ last.op = "getBlockedToUnblockedRatio"
    /\ error = "invalid_argument"
    /\ noOfBlockedCells = 0
    /\ noOfUnblockedCells >= 2

\* The cells the mask marks as visited.
VisitedCells == {c \in DOMAIN visited : visited[c]}

PathCells == {currentPath[i] : i \in 1..Len(currentPath)}

\* The search from one candidate is inside dfsRecursive.
Searching == pc = "expand"

\* A recursive extension has failed: the innermost call returns false to its caller.
ExtensionFails == Searching /\ pc' = "expand" /\ Len(stack') = Len(stack) - 1

\* C28: at every step of the search from a candidate the visited cells are
\* the cells of the current path, and the path is contiguous, without
\* duplicates and made of unblocked cells; when an extension fails, the path
\* and the mask are again what they were before it: the path without its last
\* coordinate, the mask without the mark of that coordinate.
C28_PathAndMaskAgree ==
    /\ [](Searching =>
            /\ VisitedCells = PathCells
            /\ IsSimplePath(TheGrid, currentPath)
            /\ Len(currentPath) = Len(stack)
            /\ Len(currentPath) <= pathLength)
    /\ [][ExtensionFails =>
            /\ currentPath = Append(currentPath', currentPath[Len(currentPath)])
            /\ visited' = [visited EXCEPT ![currentPath[Len(currentPath)]] = FALSE]
            /\ {c \in DOMAIN visited' : visited'[c]} = {currentPath'[i] : i \in 1..Len(currentPath')}]_vars

\* The neighbour the innermost call tried before its current direction.
TriedBefore ==
    LET frame == stack[Len(stack)] IN
    <<frame.row + directions[frame.dir - 1][1], frame.col + directions[frame.dir - 1][2]>>

\* An extension of a path of three or more cells has failed on a grid with a
\* blocked cell: the neighbour tried last is an unblocked cell that is not
\* visited any more.
C28_Witness ==
    /\ Searching
    /\ Len(currentPath) >= 3
    /\ stack[Len(stack)].dir >= 2
    /\ TriedBefore \in UnblockedGridCells
    /\ ~visited[TriedBefore]
    /\ UnblockedGridCells # GridCells

\* The place of a step in the search order: up, right, down, left.
StepRank(from, to) ==
    IF to[1] = from[1] - 1 /\ to[2] = from[2] THEN 1
    ELSE IF to[1] = from[1] /\ to[2] = from[2] + 1 THEN 2
    ELSE IF to[1] = from[1] + 1 /\ to[2] = from[2] THEN 3
    ELSE 4

\* The place of a starting cell in the order the selector returned the
\* candidates; a cell it never returned comes after all of them.
StartRank(c) ==
    IF \E i \in 1..Len(returned) : returned[i] = c
    THEN CHOOSE i \in 1..Len(returned) : returned[i] = c
    ELSE Len(returned) + 1

\* Path p comes before path q of the same length in the search order.
EarlierInSearch(p, q) ==
    \/ StartRank(p[1]) < StartRank(q[1])
    \/ /\ p[1] = q[1]
       /\ \E i \in 2..Len(p) :
            /\ \A j \in 1..(i - 1) : p[j] = q[j]
            /\ StepRank(p[i - 1], p[i]) < StepRank(q[i - 1], q[i])

\* C29: a returned path starts at the latest candidate that was attempted
\* and no valid path of the target length comes before it in the search
\* order (candidates in the selector's order, then up, right, down, left).
C29_FirstInSearchOrder ==
    (Returned /\ result # <<>>) =>
        /\ StartRank(result[1]) = Len(returned) - Len(startingPoints)
        /\ \A p \in SimplePaths(TheGrid, pathLength) :
                ~EarlierInSearch(p, result)

\* A path of three cells was returned from a candidate that was not the
\* first one attempted and had another valid path, later in the order.
C29_Witness ==
    /\ Returned
    /\ Len(result) = 3
    /\ StartRank(result[1]) > 1
    /\ \E p \in SimplePaths(TheGrid, pathLength) : EarlierInSearch(result, p)
                                                    /\ p[1] = result[1]

\* The search is at the head of its loop.
AtLoopHead == pc = "select"

\* The search ends in this step by returning the empty path.
ReturnsEmptyPath ==
    pc # "done" /\ pc' = "done" /\ error' = "none" /\ result' = <<>>

\* C30: the selector's exhaustion error never comes out of findViablePath;
\* at the head of the loop an exhausted selector is left alone and one that
\* is not exhausted is asked for a batch, a batch that failed leads back to
\* the head of the loop, and the empty path is returned only from the head
\* of the loop with the selector exhausted and every candidate attempted.
C30_StopsAtExhaustion ==
    /\ [](error # "runtime_error")
    /\ [][(AtLoopHead /\ isExhausted) =>
            (ReturnsEmptyPath /\ UNCHANGED <<selVars, returned>>)]_vars
    /\ [][(AtLoopHead /\ ~isExhausted) =>
            \/ error' # "none" /\ pc' = "done"
            \/ /\ pc' = "attempt"
               /\ returned' = returned \o startingPoints'
               /\ (startingPoints' = <<>> => isExhausted')]_vars
    /\ [][(pc = "attempt" /\ startingPoints = <<>>) => AtLoopHead']_vars
    /\ [][ReturnsEmptyPath =>
            AtLoopHead /\ isExhausted /\ startingPoints = <<>>]_vars

\* The empty path was returned after three or more batches had failed.
C30_Witness ==
    /\ Returned
    /\ result = <<>>
    /\ isExhausted
    /\ ToUint8(maxStartingPoints) >= 1
    /\ Len(returned) > 2 * ToUint8(maxStartingPoints)

\* The search returns a non-empty path in this step.
ReturnsPath ==
    pc # "done" /\ pc' = "done" /\ error' = "none" /\ result' # <<>>

\* C31: a path that has reached the target length is returned at once: the
\* search is over in every state where the current path has the target
\* length, and the step that completes the path appends the last cell (or
\* seeds the path, for length 1), returns that path, attempts no further
\* candidate and requests no further batch.
C31_ReturnsAtTargetLength ==
    /\ []((pc # "idle" /\ pathLength >= 1 /\ Len(currentPath) = pathLength) =>
            (pc = "done" /\ error = "none" /\ result = currentPath))
    /\ [][ReturnsPath =>
            /\ result' = currentPath'
            /\ Len(result') = pathLength
            /\ IF pc = "attempt"
               THEN /\ startingPoints # <<>>
                    /\ currentPath' = <<Head(startingPoints)>>
                    /\ startingPoints' = Tail(startingPoints)
               ELSE /\ SubSeq(currentPath', 1, Len(currentPath)) = currentPath
                    /\ Len(currentPath') = Len(currentPath) + 1
                    /\ startingPoints' = startingPoints
            /\ UNCHANGED <<selVars, returned>>]_vars
    /\ [][pc = "done" => UNCHANGED <<currentPath, result, startingPoints, returned, selVars>>]_vars

\* A path of two or more cells was returned while candidates of the batch
\* were still waiting and the selector was not exhausted.
C31_Witness ==
    /\ Returned
    /\ Len(result) >= 2
    /\ startingPoints # <<>>
    /\ ~isExhausted

\* The for loop takes the next candidate of the batch.
AttemptBegins == pc = "attempt" /\ startingPoints # <<>>

\* C32: when the search from a candidate begins, the path holds exactly that
\* candidate and the mask, one flag per cell of the grid, marks exactly that
\* candidate, whatever the earlier attempts left behind.
C32_AttemptStartsFresh ==
    [][AttemptBegins =>
        /\ currentPath' = <<Head(startingPoints)>>
        /\ DOMAIN visited' = GridCells
        /\ VisitedCells' = {Head(startingPoints)}]_vars

\* The search from a third or later candidate has just begun, in a later
\* batch than the first, after attempts that walked over other cells.
C32_Witness ==
    /\ pc = "expand"
    /\ pathLength >= 3
    /\ Len(stack) = 1
    /\ stack[1].dir = 1
    /\ Len(currentPath) = 1
    /\ VisitedCells = {currentPath[1]}
    /\ Len(returned) - Len(startingPoints) >= 3
    /\ ToUint8(maxStartingPoints) >= 1
    /\ Len(returned) > ToUint8(maxStartingPoints)
    /\ \E i \in 1..Len(returned) : countUnblockedNeighbors(returned[i][1], returned[i][2]) >= 1

\* C33: from the start of a search on, the current path holds at most
\* targetLength coordinates, and the calls of dfsRecursive that are
\* expanding are one per coordinate of a path shorter than targetLength.
C33_DepthBounded ==
    /\ pc # "idle" => Len(currentPath) <= pathLength
    /\ Len(stack) <= pathLength
    /\ pc = "expand" => Len(stack) = Len(currentPath) /\ Len(stack) < pathLength

\* A path of the target length was returned whose tail has a free
\* neighbour, so that the path could have grown further.
C33_Witness ==
    /\ Returned
    /\ pathLength >= 2
    /\ Len(result) = pathLength
    /\ \E c \in UnblockedGridCells :
        /\ Adjacent(result[Len(result)], c)
        /\ \A i \in 1..Len(result) : result[i] # c

\* C34: a findViablePath that has been called ends, by returning a path or
\* by throwing: a call never goes back to the state before the call and
\* stays ended once it has ended, and from some point on no call is
\* running; the selector of the call never returns a cell twice.
C34_Terminates ==
    /\ <>[](pc \in {"idle", "done"})
    /\ [][pc # "idle" => pc' # "idle"]_vars
    /\ [][pc = "done" => pc' = "done"]_vars
    /\ [](\A i, j \in 1..Len(returned) : returned[i] = returned[j] => i = j)

\* A search for two or more cells has ended with the empty path after
\* every unblocked cell of the grid, two or more, had been a start.
C34_Witness ==
    /\ pc = "done"
    /\ error = "none"
    /\ result = <<>>
    /\ pathLength >= 2
    /\ Cardinality(UnblockedGridCells) >= 2
    /\ Len(returned) = Cardinality(UnblockedGridCells)

\* C35: in every reachable grid state the blocked counter is the number of
\* cells whose bit is blocked, the unblocked counter is the number of cells
\* whose bit is unblocked, and matrixIsEmpty() holds exactly when no cell is
\* blocked.
C35_CountersMatchCells ==
    /\ noOfBlockedCells = Cardinality({i \in 1..Len(worldMatrix) : worldMatrix[i]})
    /\ noOfUnblockedCells = Cardinality({i \in 1..Len(worldMatrix) : ~worldMatrix[i]})
    /\ matrixIsEmpty <=> (\A i \in 1..Len(worldMatrix) : ~worldMatrix[i])

\* C36: a findViablePath call on a grid with an unblocked cell, with a target
\* length of 1..totalCells and a batch size of 1..255, ends without an
\* error, also when the grid has fewer cells than the batch size.
C36_ValidCallNeverThrows ==
    (/\ pc = "done"
     /\ UnblockedGridCells # {}
     /\ pathLength \in 1..getTotalCells
     /\ maxStartingPoints \in 1..(Uint8Range - 1)) => error = "none"

\* C37: the counter accessors add up to the number of cells, and the
\* selector's fully-blocked check rejects a first request for one candidate
\* exactly when the grid has no unblocked cell.
C37_AccessorsExact ==
    /\ getNoOfUnblockedCells + getNoOfBlockedCells = getTotalCells
    /\ (SelectorError(1) = "invalid_argument") <=>
            (\A i \in 1..Len(worldMatrix) : worldMatrix[i])

\* C38: a findViablePath call with a batch size of 256 or more that does
\* not exceed the number of cells, on a grid with an unblocked cell and with
\* a valid target length, is not rejected, and each batch it has received
\* from its selector held that many candidates, or all that were left.
C38_BatchSizeUnchanged ==
    (/\ pc \in {"attempt", "expand", "done"}
     /\ maxStartingPoints \in Uint8Range..getTotalCells
     /\ pathLength \in 1..getTotalCells
     /\ UnblockedGridCells # {}) =>
        /\ error = "none"
        /\ \/ Len(returned) % maxStartingPoints = 0
           \/ Len(returned) = Cardinality(UnblockedGridCells)

\* Path p comes before path q of the same length when the starts are taken
\* in the order of (score, row, col) on grid g, greatest first, and the
\* steps in the order up, right, down, left.
EarlierOnGrid(g, p, q) ==
    \/ RankIn(g, p[1]) < RankIn(g, q[1])
    \/ /\ p[1] = q[1]
       /\ \E i \in 2..Len(p) :
            /\ \A j \in 1..(i - 1) : p[j] = q[j]
            /\ StepRank(p[i - 1], p[i]) < StepRank(q[i - 1], q[i])

\* The path of n cells that grid g alone determines: the first of its simple
\* paths, or the empty path when it has none.
FirstPathOf(g, n) ==
    LET paths == SimplePaths(g, n)
    IN  IF paths = {} THEN <<>>
        ELSE CHOOSE p \in paths : \A q \in paths : q = p \/ EarlierOnGrid(g, p, q)

\* The batch size is one the selector accepts for this grid.
ValidBatchSize == maxStartingPoints \in 1..Min(Uint8Range - 1, getTotalCells)

\* C39: with any valid batch size the candidates handed out, looked at after
\* each batch and at the end of the search, are the first ones of one
\* sequence that the grid alone determines, and the path returned is the
\* one that the grid and the target length alone determine.
C39_BatchSizeIrrelevant ==
    (pc \in {"attempt", "done"} /\ ValidBatchSize) =>
        /\ \A i \in 1..Len(returned) :
            /\ returned[i] \in UnblockedCellsOf(TheGrid)
            /\ RankIn(TheGrid, returned[i]) = i - 1
        /\ Returned => result = FirstPathOf(TheGrid, pathLength)

\* A path was returned from a candidate of the second or a later batch, the
\* batches holding two or more candidates.
C39_Witness ==
    /\ Returned
    /\ ValidBatchSize
    /\ result # <<>>
    /\ maxStartingPoints >= 2
    /\ Len(returned) - Len(startingPoints) > maxStartingPoints

\* C40: the cells a selector has returned are in strictly descending order
\* of (score, row, col) on the grid it scanned, and the i-th of them is the
\* unblocked cell with exactly i - 1 cells before it in that order, so the
\* sequence is fixed by the grid and every selector on it returns the same.
C40_OrderIsTotal ==
    /\ \A i, j \in 1..Len(returned) :
        i < j => Before(snapshot, returned[i], returned[j])
    /\ \A i \in 1..Len(returned) :
        /\ returned[i] \in UnblockedCellsOf(snapshot)
        /\ RankIn(snapshot, returned[i]) = i - 1

\* A second or later batch completed a sequence in which one tie of scores
\* was decided by the row and another, within a row, by the column.
C40_Witness ==
    /\ candidates # <<>>
    /\ Len(candidates) < Len(returned)
    /\ \E i, j \in 1..Len(returned) :
        /\ i < j
        /\ ScoreOf(snapshot, returned[i]) = ScoreOf(snapshot, returned[j])
        /\ returned[i][1] > returned[j][1]
        /\ returned[i][2] < returned[j][2]
    /\ \E i, j \in 1..Len(returned) :
        /\ i < j
        /\ ScoreOf(snapshot, returned[i]) = ScoreOf(snapshot, returned[j])
        /\ returned[i][1] = returned[j][1]
        /\ returned[i][2] > returned[j][2]

====
